---- MODULE Spec2Model ----
(***************************************************************************)
(* A model of fd's LS_COLORS parser (src/src/lscolors/mod.rs) and of its   *)
(* styled path renderer (src/src/main.rs, src/src/utils/mod.rs).           *)
(*                                                                         *)
(* Text is modelled as a sequence of one-character strings, so that the    *)
(* code's split / trim / starts_with / split_off act on characters.        *)
(* Option<T> is modelled as a sequence: None == <<>>, Some(x) == <<x>>.     *)
(***************************************************************************)
EXTENDS Integers, Sequences, FiniteSets, TLC

VARIABLES
    pc,          \* position of the modelled run
    input,       \* from_string: the specification string
    rest,        \* from_string: entries of input.split(':') not yet processed
    lscolors,    \* the LsColors table
    entry,       \* the argument of the last add_entry call
    before,      \* the table as it was before the last add_entry call
    n_done,      \* number of add_entry calls made
    code,        \* parse_style: its argument
    style,       \* parse_style: its result
    path,        \* display_styled_entry: the path
    fs,          \* filesystem metadata of the paths that are looked up
    matching,    \* display_styled_entry: the match span <<start, end>>
    output,      \* the line display_styled_entry returned
    prev_render, \* an earlier rendering of the same path: its span and line
    args,        \* main: the command line and the terminal
    config,      \* main: FdOptions and the base, once built
    walked,      \* scan: the items the walker has yielded so far
    writer,      \* scan: the lines held in the BufWriter
    stdout,      \* the lines that reached standard output
    stderr,      \* the lines written to the error stream
    exit_code    \* the exit code of the process, once it has exited

vars == <<pc, input, rest, lscolors, entry, before, n_done, code, style,
          path, fs, matching, output, prev_render,
          args, config, walked, writer, stdout, stderr, exit_code>>

\* the state of a run of main
runvars == <<args, config, walked, writer, stdout, stderr, exit_code>>

\* the state of the calls that are modelled on their own
callvars == <<input, rest, lscolors, entry, before, n_done, code, style,
              prev_render>>

-----------------------------------------------------------------------------
(* Bounds of the model.                                                    *)

\* longest specification string, in entries
MaxEntries == 3
\* longest style code drawn over the small token alphabet, in tokens
MaxTokens == 4
\* largest offset of a match span
MaxSpan == 1

-----------------------------------------------------------------------------
(* Option and text helpers (Rust std).                                     *)

None == <<>>
Some(x) == <<x>>

\* str::split(ch): the pieces between the delimiters, empty pieces included;
\* a text without delimiter is one piece, so the result is never empty.
RECURSIVE SplitFrom(_, _, _, _)
SplitFrom(s, ch, i, acc) ==
    IF i > Len(s) THEN <<acc>>
    ELSE IF s[i] = ch THEN <<acc>> \o SplitFrom(s, ch, i + 1, <<>>)
    ELSE SplitFrom(s, ch, i + 1, Append(acc, s[i]))

Split(s, ch) == SplitFrom(s, ch, 1, <<>>)

\* [T]::join(sep)
RECURSIVE Join(_, _)
Join(ss, sep) ==
    IF ss = <<>> THEN <<>>
    ELSE IF Len(ss) = 1 THEN ss[1]
    ELSE ss[1] \o sep \o Join(Tail(ss), sep)

\* str::trim(): white space is the blank in this model's alphabet
RECURSIVE TrimStart(_)
TrimStart(s) ==
    IF s # <<>> /\ s[1] = " " THEN TrimStart(Tail(s)) ELSE s

RECURSIVE TrimEnd(_)
TrimEnd(s) ==
    IF s # <<>> /\ s[Len(s)] = " " THEN TrimEnd(SubSeq(s, 1, Len(s) - 1)) ELSE s

Trim(s) == TrimEnd(TrimStart(s))

\* str::starts_with
StartsWith(s, p) == Len(s) >= Len(p) /\ SubSeq(s, 1, Len(p)) = p

\* String::split_off(at): the text from offset at on
SplitOff(s, at) == SubSeq(s, at + 1, Len(s))

\* Iterator::next on the remaining items of a fused iterator
IterNext(it) == IF it = <<>> THEN None ELSE Some(it[1])
IterRest(it) == IF it = <<>> THEN <<>> ELSE Tail(it)

\* HashMap::insert: insert or overwrite
MapInsertFirstWins(m, k, v) ==
    [x \in DOMAIN m \cup {k} |-> IF x \in DOMAIN m THEN m[x] ELSE v]

MapInsert(m, k, v) ==
    [x \in DOMAIN m \cup {k} |-> IF x = k THEN v ELSE m[x]]

\* HashMap::get
MapGet(m, k) == IF k \in DOMAIN m THEN Some(m[k]) ELSE None

\* HashMap::new
EmptyMap == [x \in {} |-> None]

-----------------------------------------------------------------------------
(* Style, LsColors (src/src/lscolors/mod.rs).                              *)

\* struct Style(Color, TextStyle)
Style(c, d) == [color |-> c, deco |-> d]

LS_CODES ==
    { <<"n","o">>, <<"f","i">>, <<"r","s">>, <<"d","i">>, <<"l","n">>,
      <<"o","r">>, <<"m","i">>, <<"p","i">>, <<"s","o">>, <<"b","d">>,
      <<"c","d">>, <<"d","o">>, <<"e","x">>, <<"l","c">>, <<"r","c">>,
      <<"e","c">>, <<"s","u">>, <<"s","g">>, <<"s","t">>, <<"o","w">>,
      <<"t","w">>, <<"c","a">>, <<"m","h">>, <<"c","l">> }

DefaultDirectoryNotBold ==
    [ directory  |-> Style("Blue", "Normal"),
      symlink    |-> Style("Cyan", "Normal"),
      executable |-> Style("Red", "Bold"),
      extensions |-> EmptyMap,
      filenames  |-> EmptyMap ]

\* impl Default for LsColors
LsColorsDefault ==
    [ directory  |-> Style("Blue", "Bold"),
      symlink    |-> Style("Cyan", "Normal"),
      executable |-> Style("Red", "Bold"),
      extensions |-> EmptyMap,
      filenames  |-> EmptyMap ]

\* LsColors::parse_decoration: Some(constructor) or None
parse_decoration(tok) ==
    IF tok \in { <<"0">>, <<"0","0">> } THEN Some("Normal")
    ELSE IF tok \in { <<"1">>, <<"0","1">> } THEN Some("Bold")
    ELSE IF tok \in { <<"3">>, <<"0","3">> } THEN Some("Italic")
    ELSE IF tok \in { <<"4">>, <<"0","4">> } THEN Some("Underline")
    ELSE None

\* the match on the color token of parse_style
ColorOfToken(color_s) ==
    IF color_s = <<"3","0">> THEN "Black"
    ELSE IF color_s = <<"3","1">> THEN "Red"
    ELSE IF color_s = <<"3","2">> THEN "Green"
    ELSE IF color_s = <<"3","3">> THEN "Yellow"
    ELSE IF color_s = <<"3","4">> THEN "Blue"
    ELSE IF color_s = <<"3","5">> THEN "Magenta"
    ELSE IF color_s = <<"3","6">> THEN "Cyan"
    ELSE "White"

\* code.split(';').flat_map(parse_decoration).next()
RECURSIVE FirstDecoration(_)
FirstDecoration(toks) ==
    IF toks = <<>> THEN None
    ELSE IF parse_decoration(toks[1]) # None THEN parse_decoration(toks[1])
    ELSE FirstDecoration(Tail(toks))

\* parse_style with the fixed-color test dropped
ParseStyleNoFixed(c) ==
    LET split == Split(c, ";")
    IN  IF split = <<>> THEN None
        ELSE
          LET first == split[1]
              it0 == Tail(split)
              decoration == parse_decoration(first)
              c1 == IF decoration = None THEN Some(first) ELSE IterNext(it0)
              color == IF c1 # None THEN ColorOfToken(c1[1]) ELSE "White"
              decoration2 == IF decoration = None
                             THEN FirstDecoration(Split(c, ";"))
                             ELSE decoration
              deco == IF decoration2 = None THEN "Normal" ELSE decoration2[1]
          IN  Some(Style(color, deco))

\* parse_style that looks for a decoration in the first token only
ParseStyleFirstOnly(c) ==
    LET split == Split(c, ";")
        first == split[1]
        it0 == Tail(split)
        decoration == parse_decoration(first)
        c1 == IF decoration = None THEN Some(first) ELSE IterNext(it0)
        it1 == IF decoration = None THEN it0 ELSE IterRest(it0)
        c2 == IterNext(it1)
    IN  IF c1 = Some(<<"3","8">>) /\ c2 = Some(<<"5">>) THEN None
        ELSE Some(Style(IF c1 # None THEN ColorOfToken(c1[1]) ELSE "White",
                        IF decoration = None THEN "Normal" ELSE decoration[1]))

\* LsColors::parse_style
parse_style(c) ==
    LET split == Split(c, ";")
    IN  IF split = <<>> THEN None
        ELSE
          LET first == split[1]
              it0 == Tail(split)
              decoration == parse_decoration(first)
              c1 == IF decoration = None THEN Some(first) ELSE IterNext(it0)
              it1 == IF decoration = None THEN it0 ELSE IterRest(it0)
              c2 == IterNext(it1)
              c3 == IterNext(IterRest(it1))
          IN  IF c1 = Some(<<"3","8">>) /\ c2 = Some(<<"5">>) THEN None
              ELSE
                LET color == IF c1 # None THEN ColorOfToken(c1[1]) ELSE "White"
                    decoration2 == IF decoration = None
                                   THEN FirstDecoration(Split(c, ";"))
                                   ELSE decoration
                    deco == IF decoration2 = None THEN "Normal"
                            ELSE decoration2[1]
                IN  Some(Style(color, deco))

\* the body of add_entry once pattern and style are known
ApplyEntryStarFirst(self, pattern, st) ==
    IF pattern \in LS_CODES THEN
        IF pattern = <<"d","i">> THEN [self EXCEPT !.directory = st]
        ELSE IF pattern = <<"l","n">> THEN [self EXCEPT !.symlink = st]
        ELSE IF pattern = <<"e","x">> THEN [self EXCEPT !.executable = st]
        ELSE self
    ELSE IF StartsWith(pattern, <<"*">>) THEN
        [self EXCEPT !.filenames = MapInsert(@, SplitOff(pattern, 1), st)]
    ELSE IF StartsWith(pattern, <<"*", ".">>) THEN
        [self EXCEPT !.extensions = MapInsert(@, SplitOff(pattern, 2), st)]
    ELSE self

ApplyEntry(self, pattern, st) ==
    IF pattern \in LS_CODES THEN
        IF pattern = <<"d","i">> THEN [self EXCEPT !.directory = st]
        ELSE IF pattern = <<"l","n">> THEN [self EXCEPT !.symlink = st]
        ELSE IF pattern = <<"e","x">> THEN [self EXCEPT !.executable = st]
        ELSE self
    ELSE IF StartsWith(pattern, <<"*", ".">>) THEN
        [self EXCEPT !.extensions = MapInsert(@, SplitOff(pattern, 2), st)]
    ELSE IF StartsWith(pattern, <<"*">>) THEN
        [self EXCEPT !.filenames = MapInsert(@, SplitOff(pattern, 1), st)]
    ELSE self

\* add_entry that keeps the first style of a key
AddEntryFirstWins(self, inp) ==
    LET parts == Split(Trim(inp), "=")
        st == parse_style(parts[2])
        pattern == parts[1]
    IN  IF Len(parts) # 2 \/ st = None THEN self
        ELSE IF pattern = <<"d","i">> THEN
            IF self.directory = LsColorsDefault.directory
            THEN [self EXCEPT !.directory = st[1]] ELSE self
        ELSE IF pattern = <<"l","n">> THEN
            IF self.symlink = LsColorsDefault.symlink
            THEN [self EXCEPT !.symlink = st[1]] ELSE self
        ELSE IF pattern = <<"e","x">> THEN
            IF self.executable = LsColorsDefault.executable
            THEN [self EXCEPT !.executable = st[1]] ELSE self
        ELSE IF pattern \in LS_CODES THEN self
        ELSE IF StartsWith(pattern, <<"*", ".">>) THEN
            [self EXCEPT !.extensions =
                MapInsertFirstWins(@, SplitOff(pattern, 2), st[1])]
        ELSE IF StartsWith(pattern, <<"*">>) THEN
            [self EXCEPT !.filenames =
                MapInsertFirstWins(@, SplitOff(pattern, 1), st[1])]
        ELSE self

\* add_entry that splits at the first '=' only (splitn(2, '='))
AddEntrySplitFirst(self, inp) ==
    LET parts == Split(Trim(inp), "=")
    IN  IF Len(parts) < 2 THEN self
        ELSE
          LET st == parse_style(Join(Tail(parts), <<"=">>))
          IN  IF st = None THEN self ELSE ApplyEntry(self, parts[1], st[1])

\* LsColors::add_entry
add_entry(self, inp) ==
    LET parts == Split(Trim(inp), "=")
        pattern == IterNext(parts)
        style_code == IterNext(IterRest(parts))
        third == IterNext(IterRest(IterRest(parts)))
    IN  IF pattern = None THEN self
        ELSE IF style_code = None THEN self
        ELSE IF third # None THEN self
        ELSE
          LET st == parse_style(style_code[1])
          IN  IF st = None THEN self
              ELSE ApplyEntry(self, pattern[1], st[1])

\* LsColors::from_string, as a function
RECURSIVE AddEntries(_, _)
AddEntries(self, entries) ==
    IF entries = <<>> THEN self
    ELSE AddEntries(add_entry(self, entries[1]), Tail(entries))

from_string(inp) == AddEntries(LsColorsDefault, Split(inp, ":"))

-----------------------------------------------------------------------------
(* LsColors::from_string as a state machine: one step per loop iteration.  *)

\* the entries the specification strings are made of
EntryPool ==
    { <<>>,                                                   \*
      <<"d","i">>,                                            \* di
      <<"d","i","=","3","1","=","3","2">>,                    \* di=31=32
      <<"d","i","=">>,                                        \* di=
      <<"=","3","1">>,                                        \* =31
      <<"d","i","=","0","3",";","3","4">>,                    \* di=03;34
      <<" ","l","n","=","3","6",";","0","1"," ">>,            \* ln=36;01 in blanks
      <<"e","x","=","0","4",";","3","2">>,                    \* ex=04;32
      <<"r","s","=","0">>,                                    \* rs=0
      <<"*",".","r","s","=","0","1",";","3","5">>,            \* *.rs=01;35
      <<"*",".","r","s","=">>,                                \* *.rs=
      <<"*",".","r","s","=","3","6">>,                        \* *.rs=36
      <<"*","r","s","=","3","3">>,                            \* *rs=33
      <<"x","=","3","1">>,                                    \* x=31
      <<"*",".","r","s","=","3","8",";","5",";","1">> }       \* *.rs=38;5;1

\* the sequences of at most n items of S
RECURSIVE SeqsUpTo(_, _)
SeqsUpTo(S, n) ==
    IF n = 0 THEN { <<>> }
    ELSE LET shorter == SeqsUpTo(S, n - 1)
         IN  shorter \cup { Append(q, x) : q \in shorter, x \in S }

\* the specification strings: at most MaxEntries entries joined by ':'
Inputs == { Join(es, <<":">>) : es \in SeqsUpTo(EntryPool, MaxEntries) }

NoText == <<>>
NoFs == EmptyMap
NoSpan == <<0, 0>>
NoOutput == <<>>
NoRender == <<>>

\* no run of main is under way
NoRun ==
    /\ args = <<>>
    /\ config = <<>>
    /\ walked = <<>>
    /\ writer = <<>>
    /\ stdout = <<>>
    /\ stderr = <<>>
    /\ exit_code = <<>>

\* the state after `let mut lscolors = LsColors::default()` and input.split(':')
Init ==
    /\ NoRun
    /\ input \in Inputs
    /\ pc = "add_entries"
    /\ rest = Split(input, ":")
    /\ lscolors = LsColorsDefault
    /\ entry = NoText
    /\ before = LsColorsDefault
    /\ n_done = 0
    /\ code = NoText
    /\ style = None
    /\ path = NoText
    /\ fs = NoFs
    /\ matching = NoSpan
    /\ output = NoOutput
    /\ prev_render = NoRender

\* one iteration of `for s in input.split(':') { lscolors.add_entry(s); }`
AddEntry ==
    /\ pc = "add_entries"
    /\ rest # <<>>
    /\ entry' = Head(rest)
    /\ before' = lscolors
    /\ lscolors' = add_entry(lscolors, Head(rest))
    /\ rest' = Tail(rest)
    /\ n_done' = n_done + 1
    /\ UNCHANGED runvars
    /\ UNCHANGED <<pc, input, code, style, path, fs, matching, output,
                   prev_render>>

\* the loop ends and from_string returns lscolors
FromStringReturn ==
    /\ pc = "add_entries"
    /\ rest = <<>>
    /\ pc' = "done"
    /\ UNCHANGED runvars
    /\ UNCHANGED <<input, rest, lscolors, entry, before, n_done, code, style,
                   path, fs, matching, output, prev_render>>

Next == AddEntry \/ FromStringReturn

Spec == Init /\ [][Next]_vars

-----------------------------------------------------------------------------
(* Properties of from_string and add_entry, checked under Spec.            *)

\* the entries add_entry has been called on so far
Processed == SubSeq(Split(input, ":"), 1, n_done)

\* the two sides of an entry that holds exactly one '='
PatternOf(e) == Split(Trim(e), "=")[1]
CodeOf(e) == Split(Trim(e), "=")[2]
EqualsSigns(e) == Cardinality({ i \in 1..Len(e) : e[i] = "=" })

\* the key an entry names: a field, an extension, a file name, or nothing
KeyOf(e) ==
    LET p == PatternOf(e)
    IN  IF p \in { <<"d","i">>, <<"l","n">>, <<"e","x">> } THEN <<"field", p>>
        ELSE IF p \in LS_CODES THEN <<"nothing">>
        ELSE IF StartsWith(p, <<"*", ".">>) THEN <<"extension", SplitOff(p, 2)>>
        ELSE IF StartsWith(p, <<"*">>) THEN <<"filename", SplitOff(p, 1)>>
        ELSE <<"nothing">>

\* an entry is accepted for key k
AcceptedFor(e, k) ==
    /\ EqualsSigns(e) = 1
    /\ parse_style(CodeOf(e)) # None
    /\ KeyOf(e) = k

\* the style of the last entry of es accepted for k, if any
LastAccepted(es, k) ==
    LET idx == { i \in 1..Len(es) : AcceptedFor(es[i], k) }
    IN  IF idx = {} THEN None
        ELSE LET last == CHOOSE i \in idx : \A j \in idx : j <= i
             IN  parse_style(CodeOf(es[last]))

OrElse(opt, dflt) == IF opt = None THEN dflt ELSE opt[1]

KeysOfKind(es, kind) ==
    { KeyOf(es[i])[2] : i \in { j \in 1..Len(es) :
          /\ EqualsSigns(es[j]) = 1
          /\ KeyOf(es[j])[1] = kind
          /\ AcceptedFor(es[j], KeyOf(es[j])) } }

\* C1: from_string applied to the empty specification string returns the
\* default table: directory Blue/Bold, symlink Cyan/Normal, executable
\* Red/Bold, no extension and no file name.
C1_EmptyStringIsDefault ==
    (pc = "done" /\ input = <<>>) =>
        lscolors = [ directory  |-> [color |-> "Blue", deco |-> "Bold"],
                     symlink    |-> [color |-> "Cyan", deco |-> "Normal"],
                     executable |-> [color |-> "Red", deco |-> "Bold"],
                     extensions |-> [x \in {} |-> None],
                     filenames  |-> [x \in {} |-> None] ]

C1_Witness == pc = "done" /\ input = <<>> /\ n_done = 1 /\ entry = <<>>

\* C2: later duplicate keys win: when from_string has processed the entries
\* of the string left to right, each field, extension key and file name key
\* has the style of the last entry accepted for it, and the default (fields)
\* or no style (map keys) when no entry is accepted for it.
C2_LaterDuplicateWins ==
    pc = "done" =>
    LET es == Processed
    IN  /\ lscolors.directory =
              OrElse(LastAccepted(es, <<"field", <<"d","i">>>>),
                     [color |-> "Blue", deco |-> "Bold"])
        /\ lscolors.symlink =
              OrElse(LastAccepted(es, <<"field", <<"l","n">>>>),
                     [color |-> "Cyan", deco |-> "Normal"])
        /\ lscolors.executable =
              OrElse(LastAccepted(es, <<"field", <<"e","x">>>>),
                     [color |-> "Red", deco |-> "Bold"])
        /\ DOMAIN lscolors.extensions = KeysOfKind(es, "extension")
        /\ \A k \in DOMAIN lscolors.extensions :
              Some(lscolors.extensions[k]) = LastAccepted(es, <<"extension", k>>)
        /\ DOMAIN lscolors.filenames = KeysOfKind(es, "filename")
        /\ \A k \in DOMAIN lscolors.filenames :
              Some(lscolors.filenames[k]) = LastAccepted(es, <<"filename", k>>)

\* two accepted entries for the extension rs with different styles, an entry
\* accepted for another key between them, and the table holds the later style
C2_Witness ==
    /\ pc = "done"
    /\ n_done = 3
    /\ LET es == Processed
           k == <<"extension", <<"r","s">>>>
       IN  /\ AcceptedFor(es[1], k)
           /\ AcceptedFor(es[3], k)
           /\ EqualsSigns(es[2]) = 1
           /\ KeyOf(es[2]) = <<"field", <<"d","i">>>>
           /\ AcceptedFor(es[2], KeyOf(es[2]))
           /\ CodeOf(es[1]) # <<>> /\ CodeOf(es[3]) # <<>>
           /\ parse_style(CodeOf(es[1])) # parse_style(CodeOf(es[3]))
           /\ Some(lscolors.extensions[<<"r","s">>]) = parse_style(CodeOf(es[3]))

\* C4: an entry that holds no '=' or more than one '=' is discarded:
\* add_entry leaves the five fields of the table unchanged.
C4_NotTwoPartsUnchanged ==
    (n_done > 0 /\ EqualsSigns(entry) # 1) =>
        /\ lscolors.directory = before.directory
        /\ lscolors.symlink = before.symlink
        /\ lscolors.executable = before.executable
        /\ lscolors.extensions = before.extensions
        /\ lscolors.filenames = before.filenames

\* an entry with two '=' was given to add_entry on a table that is no longer
\* the default one
C4_Witness ==
    /\ n_done > 1
    /\ EqualsSigns(entry) = 2
    /\ before # LsColorsDefault
    /\ lscolors = before

\* C5: an entry whose pattern part or code part is empty is discarded:
\* add_entry leaves the table unchanged.
C5_EmptyPartUnchanged ==
    (/\ n_done > 0
     /\ EqualsSigns(entry) = 1
     /\ (PatternOf(entry) = <<>> \/ CodeOf(entry) = <<>>)) =>
        lscolors = before

\* C6: for an entry pattern=code whose code parses to a Style, add_entry
\* sets directory, symlink or executable for di, ln, ex, does nothing for
\* another known code, else inserts or overwrites extensions[rest] for a
\* pattern *.rest, else filenames[rest] for a pattern *rest, else does
\* nothing; nothing else of the table changes.
C6_PatternPriority ==
    (/\ n_done > 0
     /\ EqualsSigns(entry) = 1
     /\ parse_style(CodeOf(entry)) # None) =>
        LET p == PatternOf(entry)
            st == parse_style(CodeOf(entry))[1]
        IN  IF p = <<"d","i">> THEN lscolors = [before EXCEPT !.directory = st]
            ELSE IF p = <<"l","n">> THEN lscolors = [before EXCEPT !.symlink = st]
            ELSE IF p = <<"e","x">> THEN lscolors = [before EXCEPT !.executable = st]
            ELSE IF p \in LS_CODES THEN lscolors = before
            ELSE IF Len(p) >= 2 /\ p[1] = "*" /\ p[2] = "." THEN
                /\ DOMAIN lscolors.extensions =
                       DOMAIN before.extensions \cup { SubSeq(p, 3, Len(p)) }
                /\ \A k \in DOMAIN lscolors.extensions :
                       lscolors.extensions[k] =
                           IF k = SubSeq(p, 3, Len(p)) THEN st
                           ELSE before.extensions[k]
                /\ lscolors = [before EXCEPT !.extensions = lscolors.extensions]
            ELSE IF Len(p) >= 1 /\ p[1] = "*" THEN
                /\ DOMAIN lscolors.filenames =
                       DOMAIN before.filenames \cup { SubSeq(p, 2, Len(p)) }
                /\ \A k \in DOMAIN lscolors.filenames :
                       lscolors.filenames[k] =
                           IF k = SubSeq(p, 2, Len(p)) THEN st
                           ELSE before.filenames[k]
                /\ lscolors = [before EXCEPT !.filenames = lscolors.filenames]
            ELSE lscolors = before

\* a *.rs entry overwrites the style of the extension rs while the file name
\* rs keeps its own style
C6_Witness ==
    /\ n_done > 2
    /\ EqualsSigns(entry) = 1
    /\ PatternOf(entry) = <<"*", ".", "r", "s">>
    /\ CodeOf(entry) # <<>>
    /\ parse_style(CodeOf(entry)) # None
    /\ <<"r","s">> \in DOMAIN before.extensions
    /\ <<"r","s">> \in DOMAIN before.filenames
    /\ lscolors.extensions[<<"r","s">>] # before.extensions[<<"r","s">>]
    /\ lscolors.filenames = before.filenames

-----------------------------------------------------------------------------
(* LsColors::parse_style applied to one style code.                        *)

DecorationTokens ==
    { <<"0">>, <<"0","0">>, <<"1">>, <<"0","1">>,
      <<"3">>, <<"0","3">>, <<"4">>, <<"0","4">> }

ColorTokens ==
    { <<"3","0">>, <<"3","1">>, <<"3","2">>, <<"3","3">>,
      <<"3","4">>, <<"3","5">>, <<"3","6">>, <<"3","7">> }

\* the tokens of the codes of at most two tokens
Tokens ==
    DecorationTokens \cup ColorTokens
        \cup { <<"3","8">>, <<"5">>, <<"1","0">>, <<>>, <<"x">> }

\* the tokens of the longer codes
FixedTokens ==
    { <<"3","8">>, <<"5">>, <<"1","0">>, <<"1">>, <<"0","1">>, <<"3","1">> }

StyleCodes ==
    { Join(ts, <<";">>) : ts \in SeqsUpTo(Tokens, 2)
                              \cup SeqsUpTo(FixedTokens, MaxTokens) }

InitStyle ==
    /\ NoRun
    /\ code \in StyleCodes
    /\ pc = "parse_style"
    /\ style = None
    /\ input = NoText
    /\ rest = <<>>
    /\ lscolors = LsColorsDefault
    /\ entry = NoText
    /\ before = LsColorsDefault
    /\ n_done = 0
    /\ path = NoText
    /\ fs = NoFs
    /\ matching = NoSpan
    /\ output = NoOutput
    /\ prev_render = NoRender

\* let style = LsColors::parse_style(code)
ParseStyle ==
    /\ pc = "parse_style"
    /\ style' = parse_style(code)
    /\ pc' = "parsed"
    /\ UNCHANGED runvars
    /\ UNCHANGED <<input, rest, lscolors, entry, before, n_done, code, path,
                   fs, matching, output, prev_render>>

NextStyle == ParseStyle

SpecStyle == InitStyle /\ [][NextStyle]_vars

\* the color a color token stands for
ColorNamed(c) ==
    CASE c = <<"3","0">> -> "Black"
      [] c = <<"3","1">> -> "Red"
      [] c = <<"3","2">> -> "Green"
      [] c = <<"3","3">> -> "Yellow"
      [] c = <<"3","4">> -> "Blue"
      [] c = <<"3","5">> -> "Magenta"
      [] c = <<"3","6">> -> "Cyan"
      [] c = <<"3","7">> -> "White"

\* the decoration a decoration token stands for
DecorationNamed(d) ==
    CASE d \in { <<"0">>, <<"0","0">> } -> "Normal"
      [] d \in { <<"1">>, <<"0","1">> } -> "Bold"
      [] d \in { <<"3">>, <<"0","3">> } -> "Italic"
      [] d \in { <<"4">>, <<"0","4">> } -> "Underline"

\* C3: for every decoration token d and every color token c, parse_style of
\* "d;c" and of "c;d" is the same Style: the color of c with the decoration
\* of d.
C3_OrderIndependent ==
    \A d \in DecorationTokens, c \in ColorTokens :
        (pc = "parsed" /\ code \in { d \o <<";">> \o c, c \o <<";">> \o d }) =>
            style = <<[color |-> ColorNamed(c), deco |-> DecorationNamed(d)]>>

\* the color-first code 34;03 was parsed to Blue/Italic
C3_Witness ==
    /\ pc = "parsed"
    /\ code = <<"3","4",";","0","3">>
    /\ style = <<[color |-> "Blue", deco |-> "Italic"]>>

\* the codes that hold 38;5;N in the color position: alone, after a leading
\* decoration token, or followed by a decoration token
IsFixedColorCode(c) ==
    LET ts == Split(c, ";")
    IN  \/ Len(ts) = 3 /\ ts[1] = <<"3","8">> /\ ts[2] = <<"5">>
        \/ /\ Len(ts) = 4 /\ ts[1] = <<"3","8">> /\ ts[2] = <<"5">>
           /\ ts[4] \in DecorationTokens
        \/ /\ Len(ts) = 4 /\ ts[1] \in DecorationTokens
           /\ ts[2] = <<"3","8">> /\ ts[3] = <<"5">>

-----------------------------------------------------------------------------
(* Paths (Rust std::path, unix) and the filesystem.                        *)

\* MAIN_SEPARATOR, ROOT_DIR, PARENT_DIR, CURRENT_DIR of main.rs (unix)
MAIN_SEPARATOR == <<"/">>
ROOT_DIR == <<"/">>
PARENT_DIR == <<".", ".">>
CURRENT_DIR == <<".">>

\* the components after the start of a path: empty pieces and "." are skipped
RECURSIVE BodyComponents(_)
BodyComponents(pieces) ==
    IF pieces = <<>> THEN <<>>
    ELSE LET p == pieces[1]
             more == BodyComponents(Tail(pieces))
         IN  IF p = <<>> \/ p = <<".">> THEN more
             ELSE IF p = <<".", ".">>
                  THEN <<[kind |-> "ParentDir", name |-> p]>> \o more
             ELSE <<[kind |-> "Normal", name |-> p]>> \o more

\* Path::components
Components(p) ==
    LET pieces == Split(p, "/")
    IN  IF p = <<>> THEN <<>>
        ELSE IF p[1] = "/"
             THEN <<[kind |-> "RootDir", name |-> <<"/">>]>>
                      \o BodyComponents(pieces)
        ELSE IF pieces[1] = <<".">>
             THEN <<[kind |-> "CurDir", name |-> <<".">>]>>
                      \o BodyComponents(Tail(pieces))
        ELSE BodyComponents(pieces)

\* Path::file_name: the last component when it is a normal one
FileName(p) ==
    LET cs == Components(p)
    IN  IF cs = <<>> THEN None
        ELSE IF cs[Len(cs)].kind = "Normal" THEN Some(cs[Len(cs)].name)
        ELSE None

\* Path::extension: the file name after its last '.', unless the name has no
\* '.' or only a leading one
Extension(p) ==
    LET fname == FileName(p)
    IN  IF fname = None THEN None
        ELSE LET n == fname[1]
                 dots == { i \in 1..Len(n) : n[i] = "." }
             IN  IF dots = {} THEN None
                 ELSE LET last == CHOOSE i \in dots : \A j \in dots : j <= i
                      IN  IF last = 1 THEN None
                          ELSE Some(SubSeq(n, last + 1, Len(n)))

\* metadata of a path that cannot be looked up: every predicate is false
NoMeta == [symlink |-> FALSE, dir |-> FALSE, exec |-> FALSE]

Meta(p) == IF p \in DOMAIN fs THEN fs[p] ELSE NoMeta

\* is_symlink: symlink_metadata().file_type().is_symlink(), false on error
is_symlink(p) == Meta(p).symlink

\* Path::is_dir, false on error
is_dir(p) == Meta(p).dir

\* is_executable (unix): mode & 0o111 != 0, false on error
is_executable(p) == Meta(p).exec

-----------------------------------------------------------------------------
(* The renderer (src/src/main.rs, src/src/utils/mod.rs).                   *)

\* component_to_str (unix: no Prefix component)
component_to_str(c) ==
    IF c.kind = "RootDir" THEN ROOT_DIR
    ELSE IF c.kind = "CurDir" THEN CURRENT_DIR
    ELSE IF c.kind = "ParentDir" THEN PARENT_DIR
    ELSE c.name

\* Inits: the non-empty prefixes of a sequence, shortest first
Inits(items) == [i \in 1..Len(items) |-> SubSeq(items, 1, i)]

\* the name-based styles of get_path_style: file name, or else extension
NameStyleExtensionFirst(ls_colors, p) ==
    LET byname == IF FileName(p) = None THEN None
                  ELSE MapGet(ls_colors.filenames, FileName(p)[1])
        byext  == IF Extension(p) = None THEN None
                  ELSE MapGet(ls_colors.extensions, Extension(p)[1])
    IN  IF byext # None THEN byext ELSE byname

NameStyle(ls_colors, p) ==
    LET byname == IF FileName(p) = None THEN None
                  ELSE MapGet(ls_colors.filenames, FileName(p)[1])
        byext  == IF Extension(p) = None THEN None
                  ELSE MapGet(ls_colors.extensions, Extension(p)[1])
    IN  IF byname # None THEN byname ELSE byext

\* get_path_style that tests the directory before the symlink
GetPathStyleDirFirst(ls_colors, p) ==
    IF is_dir(p) THEN Some(ls_colors.directory)
    ELSE IF is_symlink(p) THEN Some(ls_colors.symlink)
    ELSE IF is_executable(p) THEN Some(ls_colors.executable)
    ELSE NameStyle(ls_colors, p)

\* get_path_style: Some(style of the table), or None for Style::default()
get_path_style(ls_colors, p) ==
    IF is_symlink(p) THEN Some(ls_colors.symlink)
    ELSE IF is_dir(p) THEN Some(ls_colors.directory)
    ELSE IF is_executable(p) THEN Some(ls_colors.executable)
    ELSE NameStyle(ls_colors, p)

\* Style::paint(text).to_string(): the text within the escapes of the style
Paint(st, text) == [style |-> st, text |-> text]

\* Vec<String>::join(sep) of painted strings: the pieces in order
RECURSIVE JoinPainted(_, _)
JoinPainted(pieces, sep) ==
    IF pieces = <<>> THEN <<>>
    ELSE IF Len(pieces) = 1 THEN <<pieces[1]>>
    ELSE <<pieces[1], sep>> \o JoinPainted(Tail(pieces), sep)

\* the offset of component i in the joined path text
RECURSIVE OffsetOf(_, _)
OffsetOf(strs, i) ==
    IF i = 1 THEN 0 ELSE OffsetOf(strs, i - 1) + Len(strs[i - 1]) + 1

\* display_styled_entry that underlines the components the match overlaps
DisplayUnderlineMatch(p, m, ls_colors) ==
    LET component_strs == [i \in 1..Len(Components(p)) |->
                               component_to_str(Components(p)[i])]
        hit(i) == /\ m[1] < OffsetOf(component_strs, i) + Len(component_strs[i])
                  /\ m[2] > OffsetOf(component_strs, i)
        base(i) == get_path_style(ls_colors,
                       Join(SubSeq(component_strs, 1, i), MAIN_SEPARATOR))
        styled == [i \in 1..Len(component_strs) |->
                     Paint(IF hit(i) THEN Some(Style("White", "Underline"))
                           ELSE base(i), component_strs[i])]
    IN  JoinPainted(styled, Paint(Some(ls_colors.directory), MAIN_SEPARATOR))

\* display_styled_entry that paints each separator like the component before
\* it and looks each component up by its own name
DisplayLikeNeighbour(p, m, ls_colors) ==
    LET component_strs == [i \in 1..Len(Components(p)) |->
                               component_to_str(Components(p)[i])]
        n == Len(component_strs)
        st(i) == get_path_style(ls_colors, component_strs[i])
    IN  [k \in 1..(IF n = 0 THEN 0 ELSE 2 * n - 1) |->
            IF k % 2 = 1 THEN Paint(st((k + 1) \div 2), component_strs[(k + 1) \div 2])
            ELSE Paint(st(k \div 2), MAIN_SEPARATOR)]

\* display_styled_entry
display_styled_entry(p, m, ls_colors) ==
    LET match_start == m[1]
        match_end == m[2]
        component_strs == [i \in 1..Len(Components(p)) |->
                               component_to_str(Components(p)[i])]
        component_paths == [i \in 1..Len(component_strs) |->
                               Join(Inits(component_strs)[i], MAIN_SEPARATOR)]
        styled_strs == [i \in 1..Len(component_strs) |->
                           Paint(get_path_style(ls_colors, component_paths[i]),
                                 component_strs[i])]
    IN  JoinPainted(styled_strs,
                    Paint(Some(ls_colors.directory), MAIN_SEPARATOR))

-----------------------------------------------------------------------------
(* display_styled_entry applied to one path, and once more with another    *)
(* match span on the same path, table and filesystem.                      *)

\* the paths that are rendered
RenderPaths ==
    { <<"m",".","r","s">>,                          \* m.rs
      <<".","r","s">>,                              \* .rs
      <<"a","/","b",".","r","s">>,                  \* a/b.rs
      <<"/","a">>,                                  \* /a
      <<"/">>,                                      \* /
      <<".","/","m",".","r","s">>,                  \* ./m.rs
      <<".",".","/","a">>,                          \* ../a
      <<"a","/","/","b","/">>,                      \* a//b/
      <<"a","/","b","/","m",".","r","s">> }         \* a/b/m.rs

\* the LS_COLORS values the table is parsed from
RenderInputs ==
    { <<>>,
      <<"d","i","=","0","3",";","3","4",":","l","n","=","0","1",";","3","6",":",
        "e","x","=","0","4",";","3","2",":",
        "*",".","r","s","=","0","1",";","3","5",":",
        "*","m",".","r","s","=","3","3">> }

\* the texts display_styled_entry looks up for a path
CumulativePaths(p) ==
    LET strs == [i \in 1..Len(Components(p)) |->
                     component_to_str(Components(p)[i])]
    IN  { Join(SubSeq(strs, 1, i), MAIN_SEPARATOR) : i \in 1..Len(strs) }

Metas == [symlink : BOOLEAN, dir : BOOLEAN, exec : BOOLEAN]

\* the text of the parent of a cumulative path, None for a first component
ParentText(p, q) ==
    LET strs == [i \in 1..Len(Components(p)) |->
                     component_to_str(Components(p)[i])]
        i == CHOOSE k \in 1..Len(strs) :
                 q = Join(SubSeq(strs, 1, k), MAIN_SEPARATOR)
    IN  IF i = 1 THEN None
        ELSE Some(Join(SubSeq(strs, 1, i - 1), MAIN_SEPARATOR))

\* a filesystem the lookups can meet: the root, "." and ".." are directories
\* and no symlinks; below something that is no directory nothing is found
ConsistentFs(p, f) ==
    \A q \in DOMAIN f :
        LET last == Components(q)[Len(Components(q))]
            par == ParentText(p, q)
        IN  /\ last.kind # "Normal" => ~f[q].symlink
            /\ (last.kind # "Normal" /\ par = None) => f[q].dir
            /\ (last.kind # "Normal" /\ f[q].exec) => f[q].dir
            /\ (par # None /\ ~f[par[1]].dir) => f[q] = NoMeta

FsStates(p) ==
    { f \in [CumulativePaths(p) -> Metas] : ConsistentFs(p, f) }

\* the match spans <<start, end>> a matcher can return in a text
Spans(p) ==
    { <<a, b>> : a \in 0..MaxSpan, b \in 0..MaxSpan } \cap
    { m \in (0..Len(p)) \X (0..Len(p)) : m[1] <= m[2] }

InitRender ==
    /\ NoRun
    /\ path \in RenderPaths
    /\ fs \in FsStates(path)
    /\ \E s \in RenderInputs : lscolors = from_string(s)
    /\ matching \in Spans(path)
    /\ pc = "display"
    /\ output = NoOutput
    /\ prev_render = NoRender
    /\ input = NoText
    /\ rest = <<>>
    /\ entry = NoText
    /\ before = LsColorsDefault
    /\ n_done = 0
    /\ code = NoText
    /\ style = None

\* let s = display_styled_entry(path, matching, ls_colors)
DisplayStyledEntry ==
    /\ pc = "display"
    /\ output' = display_styled_entry(path, matching, lscolors)
    /\ pc' = "displayed"
    /\ UNCHANGED runvars
    /\ UNCHANGED <<input, rest, lscolors, entry, before, n_done, code, style,
                   path, fs, matching, prev_render>>

\* the same path rendered for another match span
DisplayAgain ==
    /\ pc = "displayed"
    /\ \E m \in Spans(path) \ {matching} :
          /\ matching' = m
          /\ output' = display_styled_entry(path, m, lscolors)
    /\ prev_render' = <<[matching |-> matching, output |-> output]>>
    /\ pc' = "displayed_again"
    /\ UNCHANGED runvars
    /\ UNCHANGED <<input, rest, lscolors, entry, before, n_done, code, style,
                   path, fs>>

NextRender == DisplayStyledEntry \/ DisplayAgain

SpecRender == InitRender /\ [][NextRender]_vars

-----------------------------------------------------------------------------
(* Properties of the renderer, checked under SpecRender.                   *)

Rendered == pc \in { "displayed", "displayed_again" }

\* the texts of the components of the rendered path, in path order
PathStrs == [i \in 1..Len(Components(path)) |->
                 component_to_str(Components(path)[i])]

\* the cumulative sub-path of component i: components 1..i joined by '/'
SubPath(i) == Join(SubSeq(PathStrs, 1, i), <<"/">>)

\* the style the precedence of the resolver gives a path: symlink, then
\* directory, then executable, then exact file name, then extension
Precedence(q) ==
    IF q \in DOMAIN fs /\ fs[q].symlink THEN <<lscolors.symlink>>
    ELSE IF q \in DOMAIN fs /\ fs[q].dir THEN <<lscolors.directory>>
    ELSE IF q \in DOMAIN fs /\ fs[q].exec THEN <<lscolors.executable>>
    ELSE IF FileName(q) # <<>> /\ FileName(q)[1] \in DOMAIN lscolors.filenames
         THEN <<lscolors.filenames[FileName(q)[1]]>>
    ELSE IF Extension(q) # <<>> /\ Extension(q)[1] \in DOMAIN lscolors.extensions
         THEN <<lscolors.extensions[Extension(q)[1]]>>
    ELSE <<>>

\* C8: style resolution has a fixed precedence, first match wins: symlink,
\* directory, executable, exact file name, extension, else no style; every
\* component of a rendered path carries the style this precedence gives its
\* sub-path, so a type-based style dominates the name-based ones.
C8_ResolverPrecedence ==
    Rendered =>
        \A i \in 1..Len(PathStrs) :
            output[2 * i - 1].style = Precedence(SubPath(i))

\* m.rs is a symlink, a directory and executable at once and has a file name
\* entry and an extension entry: it is painted as a symlink
C8_Witness ==
    /\ pc = "displayed"
    /\ path = <<"m",".","r","s">>
    /\ fs[path] = [symlink |-> TRUE, dir |-> TRUE, exec |-> TRUE]
    /\ path \in DOMAIN lscolors.filenames
    /\ <<"r","s">> \in DOMAIN lscolors.extensions
    /\ output[1].style = <<lscolors.symlink>>
    /\ lscolors.symlink \notin { lscolors.directory, lscolors.executable,
                                 lscolors.filenames[path],
                                 lscolors.extensions[<<"r","s">>] }

\* C9: a path of n >= 1 components is rendered as its n components in path
\* order, component i painted with the style resolved for its cumulative
\* sub-path, with exactly n-1 separators between consecutive components, each
\* painted with the directory style of the table.
C9_ComponentsAndSeparators ==
    (Rendered /\ Len(PathStrs) >= 1) =>
        /\ Len(output) = 2 * Len(PathStrs) - 1
        /\ \A i \in 1..Len(PathStrs) :
              output[2 * i - 1] =
                  [style |-> get_path_style(lscolors, SubPath(i)),
                   text |-> PathStrs[i]]
        /\ \A i \in 1..(Len(PathStrs) - 1) :
              output[2 * i] =
                  [style |-> <<lscolors.directory>>, text |-> <<"/">>]

\* three components none of which has the directory style, with two
\* separators that have it
C9_Witness ==
    /\ pc = "displayed"
    /\ Len(PathStrs) = 3
    /\ Len(output) = 5
    /\ \A i \in 1..3 : output[2 * i - 1].style # <<lscolors.directory>>
    /\ output[1].style # output[3].style
    /\ output[3].style # output[5].style
    /\ output[2].style = <<lscolors.directory>>
    /\ output[4].style = <<lscolors.directory>>

-----------------------------------------------------------------------------
(* main and scan (src/src/main.rs): a run of the process. The current      *)
(* directory, the root directory, the regex compiler, the walker, the      *)
(* relative-path helper and the matcher answer as they please.             *)

\* most items the walker yields in one run
MaxWalk == 2

\* the command line and the terminal, as far as main reads them:
\* path: no <path> argument, a relative one or an absolute one;
\* colored: --no-color is absent and standard output is a terminal;
\* ls_colors_env: LS_COLORS, which is read only when the output is colored
ArgsSet ==
  { a \in
    [ path            : { None, Some("relative"), Some("absolute") },
      absolute_path   : BOOLEAN,
      full_path       : BOOLEAN,
      null_separator  : BOOLEAN,
      colored         : BOOLEAN,
      ls_colors_env   : { None,
                          Some(<<"d","i","=","0","3",";","3","4",":",
                                 "*",".","r","s","=","0","1",";","3","5">>) } ]
    : a.ls_colors_env # None => a.colored }

\* what the walker yields: an error, the root itself, or an entry with its
\* path and the answer of fshelper::path_relative_from for it
WalkItems ==
    { [kind |-> "error", path |-> NoText, rel |-> None],
      [kind |-> "root",  path |-> <<"/">>, rel |-> None],
      [kind |-> "entry", path |-> <<"/","a">>, rel |-> Some(<<"a">>)],
      [kind |-> "entry", path |-> <<"/","a","/","m",".","r","s">>,
                         rel |-> Some(<<"a","/","m",".","r","s">>)],
      [kind |-> "entry", path |-> <<"/","a">>, rel |-> None] }

\* the filesystems a run looks paths up in
MainFs ==
    { NoFs,
      [q \in { <<"/">>, <<"/","/","a">>, <<"a">> } |->
           [symlink |-> FALSE, dir |-> TRUE, exec |-> TRUE]] }

\* what Regex::find answers for a search string
MatchResults(search_str) == { None } \cup { Some(m) : m \in Spans(search_str) }

\* the messages of the fatal errors
MsgCurrentDir == "Error: could not get current directory."
MsgNoDirectory == "Error: could not find directory '<path>'."
MsgNotDirectory == "Error: '<root>' is not a directory."
MsgRegex == "<description of the regex error>"
MsgRelative == "Error: could not get relative path for directory entry."

\* display_entry: the styled line, or the path as it is
display_entry(p, m, ls_colors) ==
    IF ls_colors # None THEN display_styled_entry(p, m, ls_colors[1])
    ELSE <<Paint(None, p)>>

\* error that writes its message to standard output
ErrorToStdout(message) ==
    /\ stdout' = Append(stdout, message)
    /\ exit_code' = Some(1)
    /\ pc' = "exited"
    /\ UNCHANGED <<writer, stderr>>

\* error: the message goes to the error stream and the process exits with 1;
\* no destructor runs, so what the BufWriter holds is not written
error(message) ==
    /\ stderr' = Append(stderr, message)
    /\ exit_code' = Some(1)
    /\ pc' = "exited"
    /\ UNCHANGED <<writer, stdout>>

InitMain ==
    /\ args \in ArgsSet
    /\ fs \in MainFs
    /\ pc = "current_dir"
    /\ config = None
    /\ walked = <<>>
    /\ writer = <<>>
    /\ stdout = <<>>
    /\ stderr = <<>>
    /\ exit_code = None
    /\ path = NoText
    /\ matching = NoSpan
    /\ output = NoOutput
    /\ prev_render = NoRender
    /\ input = NoText
    /\ rest = <<>>
    /\ lscolors = LsColorsDefault
    /\ entry = NoText
    /\ before = LsColorsDefault
    /\ n_done = 0
    /\ code = NoText
    /\ style = None

\* env::current_dir()
MainCurrentDir ==
    /\ pc = "current_dir"
    /\ \E ok \in BOOLEAN :
          IF ok THEN /\ pc' = "root_dir"
                     /\ UNCHANGED <<writer, stdout, stderr, exit_code>>
          ELSE error(MsgCurrentDir)
    /\ UNCHANGED <<args, config, walked, path, fs, matching, output>>
    /\ UNCHANGED callvars

\* the root directory: the canonicalized <path>, or the current directory
MainRootDir ==
    /\ pc = "root_dir"
    /\ \E found \in BOOLEAN :
          IF args.path # None /\ ~found THEN error(MsgNoDirectory)
          ELSE /\ pc' = "is_dir"
               /\ UNCHANGED <<writer, stdout, stderr, exit_code>>
    /\ UNCHANGED <<args, config, walked, path, fs, matching, output>>
    /\ UNCHANGED callvars

\* root_dir_buf.is_dir(), then the options and the base are built
MainIsDir ==
    /\ pc = "is_dir"
    /\ \E isdir \in BOOLEAN :
          IF ~isdir
          THEN /\ error(MsgNotDirectory)
               /\ UNCHANGED config
          ELSE
            LET root_dir_is_absolute == args.path = Some("absolute")
                ls_colors ==
                    IF args.colored
                    THEN Some(IF args.ls_colors_env # None
                              THEN from_string(args.ls_colors_env[1])
                              ELSE LsColorsDefault)
                    ELSE None
                path_display ==
                    IF args.absolute_path \/ root_dir_is_absolute
                    THEN "Absolute" ELSE "Relative"
            IN  /\ config' = Some([ search_full_path |-> args.full_path,
                                    null_separator |-> args.null_separator,
                                    path_display |-> path_display,
                                    ls_colors |-> ls_colors,
                                    base |-> IF path_display = "Relative"
                                             THEN "current_dir" ELSE "root" ])
                /\ pc' = "regex"
                /\ UNCHANGED <<writer, stdout, stderr, exit_code>>
    /\ UNCHANGED <<args, walked, path, fs, matching, output>>
    /\ UNCHANGED callvars

\* RegexBuilder::new(pattern).build(): scan is called, or the error reported
MainRegex ==
    /\ pc = "regex"
    /\ \E valid \in BOOLEAN :
          IF valid THEN /\ pc' = "scan"
                        /\ UNCHANGED <<writer, stdout, stderr, exit_code>>
          ELSE error(MsgRegex)
    /\ UNCHANGED <<args, config, walked, path, fs, matching, output>>
    /\ UNCHANGED callvars

\* write!(&mut writer, "{}{}", s, separator): the BufWriter holds the line,
\* after writing out what it held when that leaves no room
WriteLine(line, full) ==
    IF full THEN /\ stdout' = stdout \o writer
                 /\ writer' = <<line>>
    ELSE /\ writer' = Append(writer, line)
         /\ UNCHANGED stdout

\* the filters without filter_map(|e| e.ok()): an error reaches the loop body
WalkerDropsRootOnly(item) == item.kind = "root"

\* filter_map(|e| e.ok()).filter(|e| e.path() != root): the items that never
\* reach the loop body
WalkerDrops(item) == item.kind = "error" \/ item.kind = "root"

\* one item of the walker through scan: the filters, then the loop body
ScanItem(item) ==
    /\ walked' = Append(walked, item)
    /\ IF WalkerDrops(item)
       THEN UNCHANGED <<pc, writer, stdout, stderr, exit_code, path,
                        matching, output>>
       ELSE IF item.rel = None
       THEN /\ error(MsgRelative)
            /\ UNCHANGED <<path, matching, output>>
       ELSE
         LET cfg == config[1]
             path_rel == item.rel[1]
             search_str_o == IF cfg.search_full_path THEN Some(path_rel)
                             ELSE FileName(path_rel)
         IN  IF search_str_o = None
             THEN UNCHANGED <<pc, writer, stdout, stderr, exit_code, path,
                              matching, output>>
             ELSE \E search_match \in MatchResults(search_str_o[1]) :
                    IF search_match = None
                    THEN UNCHANGED <<pc, writer, stdout, stderr, exit_code,
                                     path, matching, output>>
                    ELSE
                      LET p == IF cfg.path_display # "Absolute"
                               THEN path_rel ELSE item.path
                          s == display_entry(p, search_match[1], cfg.ls_colors)
                          separator == IF cfg.null_separator
                                       THEN "\\0" ELSE "\\n"
                      IN  /\ path' = p
                          /\ matching' = search_match[1]
                          /\ output' = s
                          /\ \E full \in BOOLEAN :
                                WriteLine([text |-> s, end |-> separator], full)
                          /\ UNCHANGED <<pc, stderr, exit_code>>

\* the walker yields its next item
ScanEntry ==
    /\ pc = "scan"
    /\ Len(walked) < MaxWalk
    /\ \E item \in WalkItems : ScanItem(item)
    /\ UNCHANGED <<args, config, fs>>
    /\ UNCHANGED callvars

\* the walker is exhausted: scan returns, the BufWriter is dropped and writes
\* out what it holds, main returns
ScanEnd ==
    /\ pc = "scan"
    /\ stdout' = stdout \o writer
    /\ writer' = <<>>
    /\ exit_code' = Some(0)
    /\ pc' = "exited"
    /\ UNCHANGED <<args, config, walked, stderr, path, fs, matching, output>>
    /\ UNCHANGED callvars

NextMain ==
    \/ MainCurrentDir
    \/ MainRootDir
    \/ MainIsDir
    \/ MainRegex
    \/ ScanEntry
    \/ ScanEnd

SpecMain == InitMain /\ [][NextMain]_vars

-----------------------------------------------------------------------------
(* Properties of a run, checked under SpecMain.                            *)

\* an entry whose path cannot be expressed relative to the base
Unrelative(item) == item.kind = "entry" /\ item.rel = <<>>

LastWalked == walked[Len(walked)]

\* the lines written so far, written out or still held by the BufWriter
Written == stdout \o writer

\* the entries among the first k walked items that reached the loop body with
\* a relative path
Reaching(k) ==
    { i \in 1..k : walked[i].kind = "entry" /\ walked[i].rel # <<>> }

\* C11: a walker error drops the entry: nothing is printed for it, the scan
\* goes on and the run can still exit 0; an entry without a relative path
\* writes the error message to the error stream and exits with code 1, and no
\* later entry is processed.
C11_WalkErrorDroppedRelativeFatal ==
    /\ Len(Written) <= Cardinality(Reaching(Len(walked)))
    /\ (walked # <<>> /\ LastWalked.kind = "error") =>
          /\ stderr = <<>>
          /\ exit_code # <<1>>
          /\ pc = "scan" \/ (pc = "exited" /\ exit_code = <<0>>)
    /\ \A i \in 1..Len(walked) :
          Unrelative(walked[i]) =>
              /\ i = Len(walked)
              /\ pc = "exited"
              /\ exit_code = <<1>>
              /\ stderr =
                   <<"Error: could not get relative path for directory entry.">>
    /\ (pc = "exited" /\ walked # <<>> /\ ~Unrelative(LastWalked)) =>
          /\ exit_code = <<0>>
          /\ stderr = <<>>

\* a walker error, then an entry with a match that is printed, and exit 0
C11_Witness ==
    /\ pc = "exited"
    /\ exit_code = <<0>>
    /\ Len(walked) = 2
    /\ walked[1].kind = "error"
    /\ walked[2].kind = "entry"
    /\ Len(stdout) = 1

\* a run that ended with a fatal error other than the relative-path one
SetupError ==
    /\ pc = "exited"
    /\ exit_code = <<1>>
    /\ ~(walked # <<>> /\ Unrelative(LastWalked))

\* C12: the fatal setup errors (current directory, root directory missing or
\* no directory, invalid regex) are detected before scanning begins: in a run
\* that ends with one, no entry was walked, nothing was written to standard
\* output, one message line is on the error stream and the exit code is 1.
C12_SetupErrorsBeforeScan ==
    /\ pc \in { "current_dir", "root_dir", "is_dir", "regex" } =>
          /\ walked = <<>>
          /\ Written = <<>>
          /\ stderr = <<>>
          /\ exit_code = <<>>
    /\ SetupError =>
          /\ walked = <<>>
          /\ Written = <<>>
          /\ Len(stderr) = 1
          /\ stderr[1] \in { "Error: could not get current directory.",
                             "Error: could not find directory '<path>'.",
                             "Error: '<root>' is not a directory.",
                             "<description of the regex error>" }

\* the run ended on the regex error, the last of the setup errors
C12_Witness ==
    /\ pc = "exited"
    /\ config # <<>>
    /\ stderr = <<"<description of the regex error>">>
    /\ exit_code = <<1>>
    /\ walked = <<>>

\* the text of a line with its style escapes removed
RECURSIVE StripStyles(_)
StripStyles(pieces) ==
    IF pieces = <<>> THEN <<>>
    ELSE pieces[1].text \o StripStyles(Tail(pieces))

\* C13: colorization changes only the styling: the line display_styled_entry
\* returns for a path, with the style escapes removed, is the raw path text
\* that display_entry returns when colorization is disabled.
C13_StyledTextIsPathText ==
    (pc \in { "scan", "exited" } /\ output # <<>> /\ config[1].ls_colors # <<>>) =>
        StripStyles(output) = StripStyles(display_entry(path, matching, <<>>))

====
